---- MODULE Spec2Model ----
(***************************************************************************)
(* Submission of content objects for translation (wagtail-localize,        *)
(* views/submit_translations.py).                                          *)
(*                                                                         *)
(* SubmitTranslationView.post wraps one run of a TranslationCreator in a   *)
(* database transaction: the root object is submitted with its directly    *)
(* related objects, then, for a page with include_subtree, every           *)
(* descendant page.  The model keeps the database (translation sources and *)
(* translations), the transaction's savepoint, the TranslationCreator's    *)
(* fields and the call stack of create_translations / _walk, one action    *)
(* per database call.                                                      *)
(***************************************************************************)
EXTENDS Integers, Sequences, FiniteSets, TLC

\* ------------------------------------------------------------------ bounds
NumPages == 3        \* pages 1..NumPages (objects of the page tree)
NumSnippets == 1     \* snippets NumPages+1..NumPages+NumSnippets
NumLocales == 3      \* Locale rows
NumUsers == 2        \* users with the submit_translation permission
MaxRelated == 2      \* related-object segments of one source
MaxEdges == 2        \* related-object segments of all sources together
MaxRuns == 2         \* POST requests that commit

Pages == 1..NumPages
Keys == 1..(NumPages + NumSnippets)          \* translation keys
Locales == 1..NumLocales
Users == 1..NumUsers
NoUser == 0

VARIABLES
    parent,        \* page tree: parent[p] is the parent page of p, 0 for a tree root
    locale,        \* locale[k]: the locale of the instance of k a view can be opened on
    sources,       \* TranslationSource rows
    tasks,         \* Translation rows
    txn,           \* what transaction.atomic() restores when an exception leaves it
    status,        \* "idle" | "running" | "done" | "failed": the request being handled
    pc,            \* position of post: "root" | "subtree" | "exit"
    request,       \* self.object, form.cleaned_data, request.user
    translator,    \* the TranslationCreator of the run
    stack,         \* frames of create_translations and _walk, innermost last
    entered,       \* entered[k]: calls of create_translations for k in this run
    processed,     \* processed[k]: calls that got past the seen_objects guard
    committed,     \* the database as of the last commit
    undone,        \* the last rollback: whether it discarded sources, tasks; the
                   \* step that raised; whether it was at the last target locale
    runs,          \* requests that have committed
    prev,          \* the request that committed last before the current one
    order,         \* the calls of this run that got past the seen_objects guard, in
                   \* order: the object and the call's include_related_objects
    other          \* the request of the other worker process, when there is one

vars == <<parent, locale, sources, tasks, txn, status, pc, request, translator,
          stack, entered, processed, committed, undone, runs, prev, order, other>>

\* ------------------------------------------------------------- collaborators
RECURSIVE Ascending(_)
\* The elements of a finite set of numbers in ascending order.
Ascending(S) ==
    IF S = {} THEN <<>>
    ELSE LET m == CHOOSE x \in S : \A y \in S : x <= y
         IN <<m>> \o Ascending(S \ {m})

\* Faulty variant: the child pages last first.
get_childrenReversed(p) ==
    LET cs == Ascending({c \in Pages : parent[c] = p})
    IN [i \in 1..Len(cs) |-> cs[Len(cs) + 1 - i]]

\* Page.get_children(): the child pages in their listing order.
get_children(p) == Ascending({c \in Pages : parent[c] = p})

\* Page.numchild: the number of children treebeard keeps on the row.
numchild(p) == Cardinality({c \in Pages : parent[c] = p})

\* isinstance(instance, Page)
IsPage(k) == k \in Pages

\* The rows a source may get as relatedobjectsegment_set when it is created:
\* references to any objects, itself included, within the bounds.
RelatedSets(budget) ==
    {rs \in SUBSET Keys : Cardinality(rs) <= MaxRelated /\ Cardinality(rs) <= budget}

RECURSIVE SumCard(_)
\* The related-object segments of the sources S together.
SumCard(S) ==
    IF S = {} THEN 0
    ELSE LET s == CHOOSE x \in S : TRUE
         IN Cardinality(s.related) + SumCard(S \ {s})

HasSource(db, k) == \E s \in db : s.key = k
SourceOf(db, k) == CHOOSE s \in db : s.key = k

HasTask(db, k, l) == \E t \in db : t.source = k /\ t.target_locale = l
TaskOf(db, k, l) == CHOOSE t \in db : t.source = k /\ t.target_locale = l

\* ------------------------------------------------------------------- frames
CreateFrame(k, l, incl) ==
    [op |-> "create", key |-> k, locale |-> l, include_related_objects |-> incl,
     pc |-> "enter", related |-> {}, locales |-> <<>>, children |-> <<>>]

WalkFrame(p) ==
    [op |-> "walk", key |-> p, locale |-> 0, include_related_objects |-> FALSE,
     pc |-> "next", related |-> {}, locales |-> <<>>, children |-> get_children(p)]

Top == stack[Len(stack)]
Pop == SubSeq(stack, 1, Len(stack) - 1)
SetTop(f) == [stack EXCEPT ![Len(stack)] = f]
Push(f, g) == Append(SetTop(f), g)

Running == status = "running"
AtCreate(p) == Running /\ stack # <<>> /\ Top.op = "create" /\ Top.pc = p
AtWalk(p) == Running /\ stack # <<>> /\ Top.op = "walk" /\ Top.pc = p

NoRequest == [object |-> 0, locale |-> 0, locales |-> {}, include_subtree |-> FALSE,
              user |-> NoUser]
NoneUndone == [sources |-> FALSE, tasks |-> FALSE, at |-> "none", last |-> FALSE]
NoTranslator == [user |-> NoUser, target_locales |-> <<>>, seen_objects |-> {}]

\* The other worker process while it handles no request.
NoOther ==
    [status |-> "idle", pc |-> "exit", request |-> NoRequest,
     translator |-> NoTranslator, stack |-> <<>>,
     entered |-> [k \in Keys |-> 0], processed |-> [k \in Keys |-> 0],
     order |-> <<>>, txn |-> [sources |-> {}, tasks |-> {}]]

\* ------------------------------------------------------------------- Init
\* An empty translation database and a content database drawn from: page 1 the
\* root of the page tree and every other page the child of an earlier page;
\* every instance in locale 1, but for the last page, which may be a page of
\* locale 2 placed in the tree.
Init ==
    /\ parent \in {f \in [Pages -> 0..NumPages] :
                       /\ f[1] = 0
                       /\ \A p \in Pages : p > 1 => f[p] \in 1..(p - 1)}
    /\ locale \in {f \in [Keys -> Locales] :
                       \A k \in Keys : f[k] = 1 \/ (k = NumPages /\ f[k] = 2)}
    /\ sources = {}
    /\ tasks = {}
    /\ txn = [sources |-> {}, tasks |-> {}]
    /\ status = "idle"
    /\ pc = "exit"
    /\ request = NoRequest
    /\ translator = NoTranslator
    /\ stack = <<>>
    /\ entered = [k \in Keys |-> 0]
    /\ processed = [k \in Keys |-> 0]
    /\ committed = [sources |-> {}, tasks |-> {}]
    /\ undone = NoneUndone
    /\ runs = 0
    /\ prev = NoRequest
    /\ order = <<>>
    /\ other = NoOther

\* ------------------------------------------------------- SubmitTranslationForm
\* The locales the form offers: every Locale but the instance's own.
FormLocales(obj) == Locales \ {locale[obj]}

\* form.is_valid(): locales is required and drawn from the form's queryset.
is_valid(obj, locs) == locs # {} /\ locs \subseteq FormLocales(obj)

\* ---------------------------------------------------------- TranslationCreator
\* TranslationCreator.__init__
NewTranslator(u, locs) ==
    [user |-> u, target_locales |-> Ascending(locs), seen_objects |-> {}]

\* Faulty variant: the seen_objects guard is missing.
AlreadySeenNever(k) == FALSE

\* if instance.translation_key in self.seen_objects
AlreadySeen(k) == k \in translator.seen_objects

\* Faulty variant: the key is never added to seen_objects.
AddSeenForgotten(k) == translator.seen_objects

\* self.seen_objects.add(instance.translation_key)
AddSeen(k) == translator.seen_objects \cup {k}

\* Faulty variant: the call for a related object keeps the default include_related_objects.
RelatedIncludeRelatedDefault == TRUE

\* The include_related_objects argument of the call made for a related object.
RelatedIncludeRelated == FALSE

\* The include_related_objects argument of the calls post and _walk make (the default).
DefaultIncludeRelated == TRUE

\* Faulty variant: the related object is resolved in the first target locale.
RelatedLocaleTarget(f) == Head(translator.target_locales)

\* related_object_segment.object.get_instance(instance.locale): the locale asked for.
RelatedLocale(f) == f.locale

\* Faulty variant: save_target is called whether or not the translation was created.
ShouldSaveTargetAlways(created) == TRUE

\* if created: translation.save_target(user=self.user)
ShouldSaveTarget(created) == created

\* Faulty variant: the loop over self.target_locales is left after its first iteration.
RestLocalesNone(locs) == <<>>

\* The locales left to the loop over self.target_locales after one iteration.
RestLocales(locs) == Tail(locs)

\* Faulty variant: the loop over relatedobjectsegment_set is left after its first iteration.
RestRelatedNone(rs, r) == {}

\* The segments left to the loop over relatedobjectsegment_set after one iteration.
RestRelated(rs, r) == rs \ {r}

\* Faulty variant: _walk does not recurse, only the root's children are submitted.
ShouldWalkNever(child) == FALSE

\* if child_page.numchild
ShouldWalk(child) == numchild(child) > 0

\* The pages left to the loop over get_children() after one iteration.
RestChildren(cs) == Tail(cs)

\* Faulty variant: post runs without transaction.atomic(), nothing is rolled back.
RolledBackNothing == [sources |-> sources, tasks |-> tasks]

\* What the database holds after an exception has left transaction.atomic().
RolledBack == txn

\* create_translations, the guard: a key seen in this run returns at once.
CtEnter ==
    /\ AtCreate("enter")
    /\ LET k == Top.key IN
       IF AlreadySeen(k)
       THEN /\ stack' = Pop
            /\ UNCHANGED <<translator, processed, order>>
       ELSE /\ translator' = [translator EXCEPT !.seen_objects = AddSeen(k)]
            /\ processed' = [processed EXCEPT ![k] = @ + 1]
            /\ order' = Append(order, [key |-> k,
                                       expanded |-> Top.include_related_objects])
            /\ stack' = SetTop([Top EXCEPT !.pc = "source"])
    /\ entered' = [entered EXCEPT ![Top.key] = @ + 1]
    /\ UNCHANGED <<parent, locale, sources, tasks, txn, status, pc, request, committed,
                   undone, runs, prev, other>>

\* TranslationSource.get_or_create_from_instance(instance): one source per
\* translation key; creating it extracts the instance's related-object segments.
GetOrCreateSource(k, l, rs) ==
    IF HasSource(sources, k) THEN sources
    ELSE sources \cup {[key |-> k, locale |-> l, related |-> rs]}

CtSource ==
    /\ AtCreate("source")
    /\ \E rs \in RelatedSets(MaxEdges - SumCard(sources)) :
          /\ sources' = GetOrCreateSource(Top.key, Top.locale, rs)
          /\ stack' = SetTop([Top EXCEPT !.pc = "related",
                                         !.related = SourceOf(sources', Top.key).related])
    /\ UNCHANGED <<parent, locale, tasks, txn, status, pc, request, translator,
                   entered, processed, committed, undone, runs, prev, order, other>>

\* The loop over source.relatedobjectsegment_set.all(), one iteration; after
\* the loop, on to the translation records.
CtRelated ==
    /\ AtCreate("related")
    /\ IF Top.include_related_objects /\ Top.related # {}
       THEN \E r \in Top.related :
               stack' = Push([Top EXCEPT !.related = RestRelated(Top.related, r)],
                             CreateFrame(r, RelatedLocale(Top), RelatedIncludeRelated))
       ELSE stack' = SetTop([Top EXCEPT !.pc = "tasks", !.related = {},
                                        !.locales = translator.target_locales])
    /\ UNCHANGED <<parent, locale, sources, tasks, txn, status, pc, request, translator,
                   entered, processed, committed, undone, runs, prev, order, other>>

\* Translation.objects.get_or_create(source=source, target_locale=target_locale)
GetOrCreateTask(k, l) ==
    IF HasTask(tasks, k, l) THEN tasks
    ELSE tasks \cup {[source |-> k, target_locale |-> l, user |-> NoUser, saves |-> 0]}

\* The loop over self.target_locales, one iteration up to the created test;
\* after the loop the call returns.
CtTask ==
    /\ AtCreate("tasks")
    /\ IF Top.locales = <<>>
       THEN /\ stack' = Pop
            /\ UNCHANGED tasks
       ELSE LET l == Head(Top.locales)
                created == ~HasTask(tasks, Top.key, l)
            IN /\ tasks' = GetOrCreateTask(Top.key, l)
               /\ stack' = SetTop(IF ShouldSaveTarget(created)
                                  THEN [Top EXCEPT !.pc = "save"]
                                  ELSE [Top EXCEPT !.locales = RestLocales(Top.locales)])
    /\ UNCHANGED <<parent, locale, sources, txn, status, pc, request, translator,
                   entered, processed, committed, undone, runs, prev, order, other>>

\* translation.save_target(user=self.user)
SaveTarget(t, u) == [t EXCEPT !.user = u, !.saves = @ + 1]

CtSave ==
    /\ AtCreate("save")
    /\ LET t == TaskOf(tasks, Top.key, Head(Top.locales))
       IN tasks' = (tasks \ {t}) \cup {SaveTarget(t, translator.user)}
    /\ stack' = SetTop([Top EXCEPT !.pc = "tasks", !.locales = RestLocales(Top.locales)])
    /\ UNCHANGED <<parent, locale, sources, txn, status, pc, request, translator,
                   entered, processed, committed, undone, runs, prev, order, other>>

\* ---------------------------------------------------------------------- _walk
\* for child_page in current_page.get_children(): translator.create_translations(child_page)
WalkChild ==
    /\ AtWalk("next")
    /\ Top.children # <<>>
    /\ LET child == Head(Top.children)
       IN stack' = Push([Top EXCEPT !.pc = "descend"],
                        CreateFrame(child, locale[child], DefaultIncludeRelated))
    /\ UNCHANGED <<parent, locale, sources, tasks, txn, status, pc, request, translator,
                   entered, processed, committed, undone, runs, prev, order, other>>

\* if child_page.numchild: _walk(child_page)
WalkDescend ==
    /\ AtWalk("descend")
    /\ LET child == Head(Top.children)
           back == [Top EXCEPT !.pc = "next", !.children = RestChildren(Top.children)]
       IN stack' = IF ShouldWalk(child) THEN Push(back, WalkFrame(child)) ELSE SetTop(back)
    /\ UNCHANGED <<parent, locale, sources, tasks, txn, status, pc, request, translator,
                   entered, processed, committed, undone, runs, prev, order, other>>

\* The loop over get_children() is over: _walk returns.
WalkReturn ==
    /\ AtWalk("next")
    /\ Top.children = <<>>
    /\ stack' = Pop
    /\ UNCHANGED <<parent, locale, sources, tasks, txn, status, pc, request, translator,
                   entered, processed, committed, undone, runs, prev, order, other>>

\* ----------------------------------------------------- SubmitTranslationView
\* Faulty variant: include_subtree of the form is not looked at.
WalksSubtreeAlways == IsPage(request.object)

\* if isinstance(self.object, Page): if form.cleaned_data["include_subtree"]
WalksSubtree == IsPage(request.object) /\ request.include_subtree

\* post, up to the call translator.create_translations(self.object).
Post(obj, locs, inc, u) ==
    /\ ~Running
    /\ is_valid(obj, locs)
    /\ prev' = IF status = "done" THEN request ELSE prev
    /\ request' = [object |-> obj, locale |-> locale[obj], locales |-> locs,
                   include_subtree |-> inc, user |-> u]
    /\ txn' = [sources |-> sources, tasks |-> tasks]
    /\ translator' = NewTranslator(u, locs)
    /\ stack' = <<CreateFrame(obj, locale[obj], DefaultIncludeRelated)>>
    /\ entered' = [k \in Keys |-> 0]
    /\ processed' = [k \in Keys |-> 0]
    /\ undone' = NoneUndone
    /\ status' = "running"
    /\ pc' = "root"
    /\ order' = <<>>
    /\ UNCHANGED <<parent, locale, sources, tasks, committed, runs, other>>

\* post, the root's call has returned: _walk(self.object) for a page with include_subtree.
PostSubtree ==
    /\ Running /\ stack = <<>> /\ pc = "root"
    /\ WalksSubtree
    /\ stack' = <<WalkFrame(request.object)>>
    /\ pc' = "subtree"
    /\ UNCHANGED <<parent, locale, sources, tasks, txn, status, request, translator,
                   entered, processed, committed, undone, runs, prev, order, other>>

\* post leaves the with block by its return: the transaction commits.
PostCommit ==
    /\ Running /\ stack = <<>>
    /\ pc = "subtree" \/ (pc = "root" /\ ~WalksSubtree)
    /\ status' = "done"
    /\ pc' = "exit"
    /\ runs' = runs + 1
    /\ committed' = [sources |-> sources, tasks |-> tasks]
    /\ UNCHANGED <<parent, locale, sources, tasks, txn, request, translator, stack,
                   entered, processed, undone, prev, order, other>>

\* A database call of the run raises: the exception leaves the with block and
\* the transaction rolls back.
PostFail ==
    /\ Running
    /\ sources' = RolledBack.sources
    /\ tasks' = RolledBack.tasks
    /\ status' = "failed"
    /\ pc' = "exit"
    /\ stack' = <<>>
    /\ translator' = NoTranslator
    /\ entered' = [k \in Keys |-> 0]
    /\ processed' = [k \in Keys |-> 0]
    /\ undone' = [sources |-> sources' # sources, tasks |-> tasks' # tasks,
                  at |-> IF stack = <<>> THEN "post" ELSE Top.pc,
                  last |-> stack # <<>> /\ Len(Top.locales) = 1]
    /\ order' = <<>>
    /\ UNCHANGED <<parent, locale, txn, request, committed, runs, prev, other>>

\* The first request: any object, any valid form, by the first user (users are
\* interchangeable, so the k-th request is by one of the first k users).
Submit ==
    /\ runs = 0
    /\ \E obj \in Keys, locs \in SUBSET Locales, inc \in BOOLEAN, u \in Users :
          /\ u <= runs + 1
          /\ Post(obj, locs, inc, u)

\* A later request on the view of the object submitted before.
Resubmit ==
    /\ 0 < runs /\ runs < MaxRuns
    /\ \E locs \in SUBSET Locales, inc \in BOOLEAN, u \in Users :
          /\ u <= runs + 1
          /\ Post(request.object, locs, inc, u)

\* One request commits, on an empty database.
Next ==
    \/ Submit
    \/ CtEnter
    \/ CtSource
    \/ CtRelated
    \/ CtTask
    \/ CtSave
    \/ WalkChild
    \/ WalkDescend
    \/ WalkReturn
    \/ PostSubtree
    \/ PostCommit
    \/ PostFail

Spec == Init /\ [][Next]_vars

\* MaxRuns requests commit, one after the other.
NextAgain ==
    \/ Submit
    \/ Resubmit
    \/ CtEnter
    \/ CtSource
    \/ CtRelated
    \/ CtTask
    \/ CtSave
    \/ WalkChild
    \/ WalkDescend
    \/ WalkReturn
    \/ PostSubtree
    \/ PostCommit
    \/ PostFail

\* The database of SpecAgain's first request: every instance in locale 1.
InitAgain == Init /\ \A k \in Keys : locale[k] = 1

SpecAgain == InitAgain /\ [][NextAgain]_vars

\* The steps a request's thread takes by itself, once post has started.
Run ==
    \/ CtEnter
    \/ CtSource
    \/ CtRelated
    \/ CtTask
    \/ CtSave
    \/ WalkChild
    \/ WalkDescend
    \/ WalkReturn
    \/ PostSubtree
    \/ PostCommit

\* Spec, with the thread of the request never stopping while it has a step to take.
SpecFair == Spec /\ WF_vars(Run)

\* ------------------------------------------------------------------ properties
Related(k) == SourceOf(sources, k).related
SourcesOf(k) == {s \in sources : s.key = k}
TasksOf(k, l) == {t \in tasks : t.source = k /\ t.target_locale = l}

\* The request repeats the request that committed last: same object, same
\* target locales, same include_subtree.
SameSubmission ==
    /\ prev # NoRequest
    /\ request.object = prev.object
    /\ request.locales = prev.locales
    /\ request.include_subtree = prev.include_subtree

\* C1: after a run that failed at any step, the database holds exactly the
\* sources and translations it held when the run started (those of the last
\* commit): nothing the failed run created is left.
Atomicity ==
    status = "failed" => sources = committed.sources /\ tasks = committed.tasks

\* A run on a database that already holds records created sources and
\* translations and then failed creating the translation for its last locale.
AtomicityWitness ==
    /\ status = "failed"
    /\ committed.sources # {}
    /\ undone.sources /\ undone.tasks
    /\ undone.at = "tasks" /\ undone.last

\* C2: a run that repeats the committed submission, by any user, creates no
\* source and no translation and calls save_target for none (the database
\* stays what it was at the start of the run), and every object of the walk has
\* exactly one source and exactly one translation per target locale.
Idempotence ==
    (status \in {"running", "done"} /\ SameSubmission) =>
        /\ sources = txn.sources
        /\ tasks = txn.tasks
        /\ \A k \in translator.seen_objects :
              /\ Cardinality(SourcesOf(k)) = 1
              /\ \A l \in request.locales : Cardinality(TasksOf(k, l)) = 1

\* The second run, by another user, of a submission with a subtree and at least
\* three objects has committed.
IdempotenceWitness ==
    /\ status = "done"
    /\ SameSubmission
    /\ request.user # prev.user
    /\ WalksSubtree
    /\ Cardinality(translator.seen_objects) >= 3

\* C3: in one run the body of create_translations runs at most once for each
\* translation key, and no key has two sources, however many paths reach it.
Deduplication ==
    \A k \in Keys : processed[k] <= 1 /\ Cardinality(SourcesOf(k)) <= 1

\* Two objects a and b of one run are both related to a snippet c:
\* create_translations was called twice for c and processed it once.
DeduplicationWitness ==
    /\ status = "done"
    /\ \E a, b, c \in Keys :
          /\ a # b /\ c # a /\ c # b /\ ~IsPage(c)
          /\ HasSource(sources, a) /\ HasSource(sources, b)
          /\ c \in Related(a) /\ c \in Related(b)
          /\ entered[c] = 2 /\ processed[c] = 1
          /\ Cardinality(SourcesOf(c)) = 1

\* C4: a run without the subtree walk on an empty database gives sources and
\* translations only to the root and the objects related to the root's source.
DepthCap ==
    (status \in {"running", "done"} /\ ~WalksSubtree /\ txn.sources = {}) =>
        LET A == request.object
            near == IF HasSource(sources, A) THEN {A} \cup Related(A) ELSE {A}
        IN /\ \A s \in sources : s.key \in near
           /\ \A t \in tasks : t.source \in near

\* The root A is related to B, B's source is related to C, C is neither A nor
\* related to A: the run committed and C has no source and no translation.
DepthCapWitness ==
    /\ status = "done" /\ ~WalksSubtree /\ txn.sources = {}
    /\ \E B \in Related(request.object) : \E C \in Related(B) :
          /\ C # request.object /\ C \notin Related(request.object)
          /\ ~HasSource(sources, C)
          /\ \A t \in tasks : t.source # C

RECURSIVE Reaches(_, _, _)
\* b is reached from a by at most n related-object references between sources.
Reaches(a, b, n) ==
    /\ n > 0
    /\ HasSource(sources, a)
    /\ \E j \in Related(a) : j = b \/ Reaches(j, b, n - 1)

\* k lies on a cycle of related-object references (a self-reference included).
OnCycle(k) == Reaches(k, k, Cardinality(Keys))

\* C5: every run ends, committed or failed, also on cyclic related-object
\* graphs and self-references, and after a committed run every object on a
\* cycle has exactly one source, its body having run exactly once.
CycleSafety ==
    /\ Running ~> ~Running
    /\ [](status = "done" =>
            \A k \in Keys : (HasSource(sources, k) /\ OnCycle(k)) =>
                Cardinality(SourcesOf(k)) = 1 /\ processed[k] = 1)

\* The root A is related to B and B's source is related to A: the run has
\* committed, with one source each.
CycleSafetyWitness ==
    /\ status = "done"
    /\ \E B \in Related(request.object) :
          /\ B # request.object
          /\ request.object \in Related(B)
          /\ Cardinality(SourcesOf(B)) = 1
          /\ Cardinality(SourcesOf(request.object)) = 1

\* A committed run met a self-reference: the call for the key made from its
\* own body returned at the guard.
SelfReferenceReached ==
    /\ status = "done"
    /\ \E a \in translator.seen_objects :
          a \in Related(a) /\ entered[a] = 2 /\ processed[a] = 1

\* C6: after a committed run with N target locales on an empty database, the
\* objects the walk touched are the objects with a source, each has exactly
\* one source and exactly N translations, one per target locale.
FanOut ==
    (status = "done" /\ txn.sources = {} /\ txn.tasks = {}) =>
        /\ request.object \in translator.seen_objects
        /\ {s.key : s \in sources} = translator.seen_objects
        /\ \A t \in tasks : t.source \in translator.seen_objects
        /\ \A k \in translator.seen_objects :
              /\ Cardinality(SourcesOf(k)) = 1
              /\ {t.target_locale : t \in {x \in tasks : x.source = k}} = request.locales
              /\ Cardinality({x \in tasks : x.source = k}) = Cardinality(request.locales)

\* A run with two target locales touched the root, a related object and a
\* descendant page.
FanOutWitness ==
    /\ status = "done" /\ txn.sources = {} /\ txn.tasks = {}
    /\ Cardinality(request.locales) = 2
    /\ WalksSubtree
    /\ \E r \in Related(request.object) : ~IsPage(r)
    /\ \E d \in Pages : parent[d] = request.object /\ HasSource(sources, d)

\* C7: once the root's call of create_translations has returned, the root and
\* every object related to the root's source have a source and a translation
\* for every target locale.
CoverageOneHop ==
    (status = "done" \/ (Running /\ stack = <<>>)) =>
        /\ HasSource(sources, request.object)
        /\ \A k \in {request.object} \cup Related(request.object) :
              /\ HasSource(sources, k)
              /\ \A l \in request.locales : HasTask(tasks, k, l)

\* The root's call has just returned; the root has two related objects.
CoverageOneHopWitness ==
    /\ Running /\ stack = <<>> /\ pc = "root"
    /\ Cardinality(Related(request.object) \ {request.object}) = 2
    /\ Cardinality(request.locales) = 2

RECURSIVE IsBelow(_, _)
\* Page d is a descendant of page p.
IsBelow(d, p) == parent[d] # 0 /\ (parent[d] = p \/ IsBelow(parent[d], p))

Descendants(p) == {d \in Pages : IsBelow(d, p)}

\* Root page with two children that are leaves, one related snippet, none
\* related to the children, one target locale.
Scenario ==
    LET P == request.object
        kids == {c \in Pages : parent[c] = P}
    IN /\ Cardinality(kids) = 2
       /\ Descendants(P) = kids
       /\ Cardinality(Related(P)) = 1
       /\ \A S \in Related(P) : ~IsPage(S)
       /\ \A c \in kids : HasSource(sources, c) /\ Related(c) = {}
       /\ Cardinality(request.locales) = 1

\* C8: after a committed run with the subtree walk, every descendant page of
\* the root has a source and a translation for every target locale, also below
\* a page the run had already processed as a related object; the scenario run
\* on an empty database leaves exactly 4 sources and 4 translations.
CoverageSubtree ==
    (status = "done" /\ WalksSubtree) =>
        /\ \A d \in Descendants(request.object) :
              /\ HasSource(sources, d)
              /\ \A l \in request.locales : HasTask(tasks, d, l)
        /\ (Scenario /\ txn.sources = {}) =>
              /\ Cardinality(sources) = 4
              /\ Cardinality(tasks) = 4
              /\ {s.key : s \in sources} =
                     {request.object} \cup Descendants(request.object)
                         \cup Related(request.object)

\* A child c of the root was processed first as a related object of the root,
\* so the walk's call for c returned at the guard; c's own child has a source.
CoverageSubtreeWitness ==
    /\ status = "done" /\ WalksSubtree
    /\ \E c \in Related(request.object) \cap Pages, g \in Pages :
          /\ parent[c] = request.object /\ parent[g] = c
          /\ entered[c] = 2 /\ processed[c] = 1
          /\ HasSource(sources, g)
          /\ \A l \in request.locales : HasTask(tasks, g, l)

\* The scenario of C8 has committed.
ScenarioReached == status = "done" /\ WalksSubtree /\ Scenario /\ txn.sources = {}

\* C9: save_target is called for a translation exactly once, right after the
\* get_or_create that created it, with the user of that run; a translation
\* that existed when get_or_create was called is left as it was, in the run
\* that created it and in every later run.
OneTimeInit ==
    /\ \A t \in tasks :
          /\ t.saves <= 1
          /\ t.saves = 1 => t.user # NoUser
          /\ t.saves = 0 =>
                /\ AtCreate("save")
                /\ Top.key = t.source
                /\ Head(Top.locales) = t.target_locale
    /\ status \in {"running", "done"} =>
          /\ \A t \in txn.tasks : t \in tasks
          /\ \A t \in tasks \ txn.tasks : t.saves = 1 => t.user = request.user

\* A later run by another user met a translation of an earlier run again and
\* created a translation of the same source for another locale.
OneTimeInitWitness ==
    /\ status = "done"
    /\ \E t \in txn.tasks, n \in tasks \ txn.tasks :
          /\ t.user # request.user /\ t.saves = 1
          /\ t.source \in translator.seen_objects
          /\ t.target_locale \in request.locales
          /\ n.source = t.source
          /\ n.user = request.user /\ n.saves = 1

\* C10: no translation has as its target locale the locale of the instance
\* its source was taken from.
OwnLocaleRefused ==
    \A t \in tasks :
        HasSource(sources, t.source) =>
            t.target_locale # SourceOf(sources, t.source).locale

\* C11: no committed state is half-built.  Every translation of the committed
\* database refers to a source of the committed database and has had its one
\* save_target; every committed source has a translation; what a request
\* leaves behind, committed or failed, is the committed database; and every
\* source a run created has, at its commit, a translation for every target
\* locale of that run.
NoHalfBuilt ==
    /\ \A t \in committed.tasks :
          HasSource(committed.sources, t.source) /\ t.saves = 1
    /\ \A s \in committed.sources : \E t \in committed.tasks : t.source = s.key
    /\ ~Running => sources = committed.sources /\ tasks = committed.tasks
    /\ status = "done" =>
          \A s \in sources \ txn.sources :
              \A l \in request.locales : HasTask(tasks, s.key, l)

\* A run on a database that already held records committed new sources for
\* two target locales.
NoHalfBuiltWitness ==
    /\ status = "done"
    /\ txn.sources # {}
    /\ Cardinality(sources \ txn.sources) >= 2
    /\ Cardinality(request.locales) >= 2

\* The objects whose call of this run ran with include_related_objects=True.
Expanded == {order[i].key : i \in {j \in DOMAIN order : order[j].expanded}}

\* The objects a translation was created for in this run.
GotTask == {t.source : t \in tasks \ txn.tasks}

\* C12: after a successful run, every object related to an object that got a
\* translation in the run has a source.
DependenciesHaveSources ==
    status = "done" =>
        \A k \in GotTask : \A r \in Related(k) : HasSource(sources, r)

\* C12, amended: from the moment an object whose call ran with
\* include_related_objects=True gets its first translation of the run, every
\* object related to it has a source.  Nothing of the kind holds for an object
\* the run submitted as a related object: its call does not expand.
ExpandedDependenciesHaveSources ==
    status \in {"running", "done"} =>
        \A k \in Expanded \cap GotTask : \A r \in Related(k) : HasSource(sources, r)

\* The root got its translations with every object related to it having a
\* source, and a related object of the root got translations while an object
\* related to it has no source.
ExpandedDependenciesWitness ==
    /\ status = "done"
    /\ request.object \in Expanded \cap GotTask
    /\ \E b \in Related(request.object) :
          /\ b \in GotTask \ Expanded
          /\ \E c \in Related(b) : ~HasSource(sources, c)

\* C14: after a run that walked the subtree, every object related to a page
\* below the root has a source and a translation for every target locale,
\* also when the page was first reached as a related object.
ChildrenAreFullRoots ==
    (status = "done" /\ WalksSubtree) =>
        \A p \in Descendants(request.object) :
            /\ HasSource(sources, p)
            /\ \A r \in Related(p) :
                  /\ HasSource(sources, r)
                  /\ \A l \in request.locales : HasTask(tasks, r, l)

\* ------------------------------------------------------- concurrent requests
\* The request this process is handling: everything a request owns, as
\* opposed to the database both processes share.
Context ==
    [status |-> status, pc |-> pc, request |-> request, translator |-> translator,
     stack |-> stack, entered |-> entered, processed |-> processed,
     order |-> order, txn |-> txn]

\* The next step of the request is a call of the database: a get_or_create, a
\* save_target or the commit.
AtDatabaseCall ==
    \/ AtCreate("source")
    \/ AtCreate("tasks") /\ Top.locales # <<>>
    \/ AtCreate("save")
    \/ Running /\ stack = <<>>

\* The scheduler takes the processor from one worker process and gives it to
\* the other, before any database call of the first or when its request is
\* over.  (The steps between two database calls touch nothing the processes
\* share, so it makes no difference where between the two the switch falls.)
Switch ==
    /\ status = "done" \/ AtDatabaseCall
    /\ other.status # "done"
    /\ other' = Context
    /\ status' = other.status
    /\ pc' = other.pc
    /\ request' = other.request
    /\ translator' = other.translator
    /\ stack' = other.stack
    /\ entered' = other.entered
    /\ processed' = other.processed
    /\ order' = other.order
    /\ txn' = other.txn
    /\ UNCHANGED <<parent, locale, sources, tasks, committed, undone, runs, prev>>

\* A request arrives at a worker process that handles none, with
\* include_subtree off.  Without the walk objects are interchangeable, and so
\* are the target locales: the first request is for object 1, with locale 2
\* among its target locales, by user 1; the request that arrives while the
\* first is under way is for any object and any target locales, by user 2.
SubmitConcurrently ==
    /\ status = "idle"
    /\ \E obj \in Keys, locs \in SUBSET Locales :
          /\ other.status = "idle" => obj = 1 /\ 2 \in locs
          /\ Post(obj, locs, FALSE, IF other.status = "idle" THEN 1 ELSE 2)

NextConcurrent ==
    \/ SubmitConcurrently
    \/ Switch
    \/ CtEnter
    \/ CtSource
    \/ CtRelated
    \/ CtTask
    \/ CtSave
    \/ PostCommit

\* Two requests handled by two worker processes on one database, each
\* get_or_create one step, both running to their commit.
InitConcurrent == InitAgain /\ \A p \in Pages : parent[p] = p - 1

SpecConcurrent == InitConcurrent /\ [][NextConcurrent]_vars

\* C13: two requests running concurrently, their database calls interleaved
\* in any order, leave at most one source per object and at most one
\* translation per source and target locale; save_target is called at most
\* once for a translation, and when both requests have committed exactly once,
\* by the user of one of the two.
ConcurrentUniqueness ==
    /\ \A k \in Keys : Cardinality(SourcesOf(k)) <= 1
    /\ \A k \in Keys, l \in Locales : Cardinality(TasksOf(k, l)) <= 1
    /\ \A t \in tasks : t.saves <= 1
    /\ (status = "done" /\ other.status = "done") =>
          \A t \in tasks :
              /\ t.saves = 1
              /\ t.user \in {request.user, other.request.user}

\* Both requests have committed; both submitted object k for the same two
\* target locales, and each created and initialized one of k's two
\* translations.
ConcurrentUniquenessWitness ==
    /\ status = "done" /\ other.status = "done"
    /\ request.locales = other.request.locales
    /\ \E k \in translator.seen_objects \cap other.translator.seen_objects :
          \E t \in tasks, u \in tasks :
              /\ t.source = k /\ u.source = k
              /\ t.target_locale # u.target_locale
              /\ t.user = request.user /\ u.user = other.request.user
              /\ t.user # u.user

\* The call on top of the stack runs with include_related_objects=True and
\* is past its loop over the related objects: it is creating its translations.
CreatingTasksExpanded ==
    /\ AtCreate("tasks") \/ AtCreate("save")
    /\ Top.include_related_objects

\* Object r has a source and a translation for every target locale of the run.
Submitted(r) ==
    /\ HasSource(sources, r)
    /\ \A l \in request.locales : HasTask(tasks, r, l)

\* A call for a related object is only ever made by a call that has obtained
\* its own source.
SourceBeforeRelated ==
    \A i \in DOMAIN stack :
        (stack[i].op = "create" /\ ~stack[i].include_related_objects) =>
            /\ i > 1
            /\ stack[i - 1].op = "create"
            /\ HasSource(sources, stack[i - 1].key)
            /\ stack[i].key \in SourceOf(sources, stack[i - 1].key).related

\* C15: while a call with include_related_objects=True creates the
\* translations of its object X, from before the first one, every object
\* related to X has its source and all its translations; and X's source was
\* obtained before any related object was processed.
RelatedBeforeCurrent ==
    /\ CreatingTasksExpanded => \A r \in Related(Top.key) : Submitted(r)
    /\ SourceBeforeRelated

\* C15, amended: the same for every object related to X other than X itself.
\* An object that refers to itself meets the seen_objects guard in its own
\* loop, so its translations are created in its own call and not before.
RelatedBeforeCurrentButSelf ==
    /\ CreatingTasksExpanded =>
          \A r \in Related(Top.key) \ {Top.key} : Submitted(r)
    /\ SourceBeforeRelated

\* A call with include_related_objects=True is about to create the first
\* translation of an object that refers to itself and to another object, for
\* two target locales; the other object has its source and both translations.
RelatedBeforeCurrentWitness ==
    /\ AtCreate("tasks")
    /\ Top.include_related_objects
    /\ Top.locales = translator.target_locales
    /\ Len(Top.locales) = 2
    /\ Top.key \in Related(Top.key)
    /\ \E r \in Related(Top.key) : r # Top.key /\ Submitted(r)
    /\ \A l \in request.locales : ~HasTask(tasks, Top.key, l)

\* The pages of the subtree the run walks: the root and the pages below it.
Subtree == {request.object} \cup Descendants(request.object)

\* The pages of the subtree above page d.
AncestorsInSubtree(d) == {x \in Subtree : IsBelow(d, x)}

\* The siblings listed before page d, and the pages below them.
ListedBefore(d) ==
    LET before == {a \in Pages : parent[a] = parent[d] /\ a < d}
    IN before \cup UNION {Descendants(a) : a \in before}

\* The objects whose processing has begun in this run.
Begun == {order[i].key : i \in DOMAIN order}

\* C16: in a run with the subtree walk, the root is processed first, and once
\* the processing of a page of the subtree has begun, every page of the
\* subtree above it has its source and all its translations, and so have the
\* siblings listed before it.
ParentBeforeChildren ==
    (status \in {"running", "done"} /\ WalksSubtree) =>
        /\ order # <<>> => order[1].key = request.object
        /\ \A d \in Begun \cap Descendants(request.object) :
              /\ \A x \in AncestorsInSubtree(d) : Submitted(x)
              /\ \A a \in ListedBefore(d) : Submitted(a)

\* C16, amended: the same for the pages whose processing begins at the call
\* the walk makes for them.  A page that is related to an object processed
\* earlier is processed in that object's call, before that object's
\* translations, wherever the page is in the tree.
WalkedParentBeforeChildren ==
    (status \in {"running", "done"} /\ WalksSubtree) =>
        /\ order # <<>> => order[1].key = request.object
        /\ \A d \in (Begun \cap Expanded) \cap Descendants(request.object) :
              /\ \A x \in AncestorsInSubtree(d) : Submitted(x)
              /\ \A a \in ListedBefore(d) : Submitted(a)

\* The run walked the subtree; a page below the root was processed as a
\* related object before its parent, and its parent, below the root too, at
\* the walk's call.
WalkedParentBeforeChildrenWitness ==
    /\ status = "done"
    /\ WalksSubtree
    /\ \E i \in DOMAIN order, j \in DOMAIN order :
          /\ i < j
          /\ order[i].key \in Pages
          /\ ~order[i].expanded
          /\ order[j].key = parent[order[i].key]
          /\ order[j].expanded
          /\ order[j].key # request.object

\* The frames of the calls made for related objects (line 83), by position.
RelatedCalls ==
    {i \in DOMAIN stack : stack[i].op = "create" /\ ~stack[i].include_related_objects}

\* C17: every related object is resolved in the locale of the root object of
\* the run, which is no target locale, so the source of every object the run
\* processed as a related object is of an instance in the root's locale.
RootLocaleDependencies ==
    status \in {"running", "done"} =>
        /\ \A i \in RelatedCalls :
              /\ stack[i].locale = request.locale
              /\ stack[i].locale \notin request.locales
        /\ txn.sources = {} =>
              \A i \in DOMAIN order :
                  (~order[i].expanded /\ HasSource(sources, order[i].key)) =>
                      SourceOf(sources, order[i].key).locale = request.locale

\* C17, amended: every related object is resolved in the locale of the
\* instance being expanded, and the source the call creates is of that
\* locale; for the related objects of the root that is the root's locale,
\* which is no target locale.
ExpandedLocaleDependencies ==
    status \in {"running", "done"} =>
        \A i \in RelatedCalls :
            /\ i > 1
            /\ stack[i].locale = stack[i - 1].locale
            /\ stack[i - 1].locale = locale[stack[i - 1].key]
            /\ (txn.sources = {} /\ stack[i].pc \in {"related", "tasks", "save"}) =>
                  SourceOf(sources, stack[i].key).locale = locale[stack[i - 1].key]
            /\ stack[i - 1].key = request.object =>
                  /\ stack[i].locale = request.locale
                  /\ stack[i].locale \notin request.locales

\* The walk reached a page of another locale than the root's, a target locale
\* of the run, and the object related to that page got its source from its
\* instance in that locale.
ExpandedLocaleDependenciesWitness ==
    /\ Running
    /\ WalksSubtree
    /\ txn.sources = {}
    /\ \E i \in RelatedCalls :
          /\ i > 1
          /\ stack[i].pc = "tasks"
          /\ stack[i - 1].key # request.object
          /\ stack[i - 1].locale # request.locale
          /\ stack[i - 1].locale \in request.locales
          /\ SourceOf(sources, stack[i].key).locale = stack[i - 1].locale

\* The root of the run and the objects its source refers to.
RootAndRelated ==
    IF HasSource(sources, request.object)
    THEN {request.object} \cup Related(request.object)
    ELSE {request.object}

\* C18: a run leaves every source and every translation it found in the
\* database as it was, assignee included; and unless the root is a page and
\* include_subtree was asked for, it submits the root and the objects related
\* to the root and nothing else: no page below the root that is not related to
\* the root, and no source or translation for any other object.
FrameOfRun ==
    status \in {"running", "done"} =>
        /\ \A s \in txn.sources : s \in sources
        /\ \A t \in txn.tasks : t \in tasks
        /\ ~(IsPage(request.object) /\ request.include_subtree) =>
              /\ translator.seen_objects \subseteq RootAndRelated
              /\ \A s \in sources \ txn.sources : s.key \in RootAndRelated
              /\ \A t \in tasks \ txn.tasks : t.source \in RootAndRelated

\* A run without include_subtree, on a page that has a child, found
\* translations of the root assigned to another user and added one for the
\* root; the child, not related to the root, was not submitted.
FrameOfRunWitness ==
    /\ status = "done"
    /\ ~request.include_subtree
    /\ \E c \in Pages :
          /\ parent[c] = request.object
          /\ c \notin translator.seen_objects
          /\ ~HasSource(sources, c)
    /\ Related(request.object) # {}
    /\ \E t \in txn.tasks, n \in tasks \ txn.tasks :
          /\ t.source = request.object /\ n.source = request.object
          /\ t.user # n.user
          /\ n.user = request.user

====
